---------------------------- MODULE Spec2Model ----------------------------
(***************************************************************************)
(* A model of lunar.py: the LunarYear class (year validation, position in  *)
(* the sexagenary cycle, the class-level table built on first use, the     *)
(* per-language lookup) and the command-line entry point main().           *)
(*                                                                         *)
(* Text is a sequence of tokens.  Text that the program inspects (year     *)
(* arguments, language codes, the numeric columns of the table, messages)  *)
(* is held one character per token; a year name of the table, which the    *)
(* program only carries around, is held as one token, its non-ASCII        *)
(* characters written <U+XXXX>.                                            *)
(***************************************************************************)
EXTENDS Integers, Sequences, FiniteSets, TLC

VARIABLES
    TABLE,      \* LunarYear._TABLE: None, or a reference into heap
    heap,       \* the dict objects returned by _get_year(), in allocation order
    resolvers,  \* the LunarYear instances constructed so far
    last,       \* what the last call (a construction or a lang call) did
    threads,    \* per thread: its position in __init__ and its locals
    proc        \* the process running main(): argv, exit status, output

vars == <<TABLE, heap, resolvers, last, threads, proc>>

----------------------------------------------------------------------------
(* Bounds of the model *)

\* how many LunarYear instances one session constructs
MaxResolvers == 2
\* a session's integer year arguments lie within EdgeMargin of a range limit
EdgeMargin == 1
\* the years tried one by one run from YearMargin below the valid range to
\* YearMargin above it
YearMargin == 6
\* how many threads construct concurrently
NumThreads == 2

----------------------------------------------------------------------------
(* Program constants *)

MIN_YEAR == 4
MAX_YEAR == 9999

\* the None of `_TABLE = None`; heap references count from 1
None == 0

chi == <<"c", "h", "i">>
kor == <<"k", "o", "r">>
jap == <<"j", "a", "p">>
viet == <<"v", "i", "e", "t">>
eng == <<"e", "n", "g">>

SUPPORTED_LANGUAGES == {chi, kor, jap, viet, eng}

----------------------------------------------------------------------------
(* Text *)

Digits == <<"0", "1", "2", "3", "4", "5", "6", "7", "8", "9">>
Lower == <<"a", "b", "c", "d", "e", "f", "g", "h", "i", "j", "k", "l", "m",
           "n", "o", "p", "q", "r", "s", "t", "u", "v", "w", "x", "y", "z">>
Upper == <<"A", "B", "C", "D", "E", "F", "G", "H", "I", "J", "K", "L", "M",
           "N", "O", "P", "Q", "R", "S", "T", "U", "V", "W", "X", "Y", "Z">>
Whitespace == {" ", "\t", "\n"}

IsDigit(c) == \E i \in 1..Len(Digits) : Digits[i] = c
DigitValue(c) == (CHOOSE i \in 1..Len(Digits) : Digits[i] = c) - 1

\* the code point of a character, for the characters text is compared by
ord(c) ==
    IF \E i \in 1..Len(Lower) : Lower[i] = c
    THEN 96 + (CHOOSE i \in 1..Len(Lower) : Lower[i] = c)
    ELSE IF \E i \in 1..Len(Upper) : Upper[i] = c
    THEN 64 + (CHOOSE i \in 1..Len(Upper) : Upper[i] = c)
    ELSE IF IsDigit(c) THEN 48 + DigitValue(c)
    ELSE 32

\* s < t, as Python compares str: by code point, a proper prefix first
StrLess(s, t) ==
    \E k \in 1..(Len(t)) :
        /\ \A j \in 1..(k - 1) : j <= Len(s) /\ s[j] = t[j]
        /\ \/ k = Len(s) + 1
           \/ k <= Len(s) /\ ord(s[k]) < ord(t[k])

\* sorted(S) for a set of distinct texts
RECURSIVE sorted(_)
sorted(S) ==
    IF S = {} THEN <<>>
    ELSE LET m == CHOOSE x \in S : \A y \in S \ {x} : StrLess(x, y)
         IN  <<m>> \o sorted(S \ {m})

\* sep.join(seq)
RECURSIVE join(_, _)
join(sep, seq) ==
    IF seq = <<>> THEN <<>>
    ELSE IF Len(seq) = 1 THEN seq[1]
    ELSE seq[1] \o sep \o join(sep, Tail(seq))

\* s.strip(): s without its leading and trailing whitespace
strip(s) ==
    LET n == Len(s)
        first == CHOOSE i \in 1..(n + 1) :
                     /\ i = n + 1 \/ s[i] \notin Whitespace
                     /\ \A j \in 1..(i - 1) : s[j] \in Whitespace
        final == CHOOSE i \in 0..n :
                     /\ i = 0 \/ s[i] \notin Whitespace
                     /\ \A j \in (i + 1)..n : s[j] \in Whitespace
    IN  SubSeq(s, first, final)

\* s.split(sep) for a one-character sep: the pieces between the separators
split(s, sep) ==
    LET at == {i \in 1..Len(s) : s[i] = sep}
        n == Cardinality(at)
        cut(k) == IF k = 0 THEN 0
                  ELSE IF k = n + 1 THEN Len(s) + 1
                  ELSE CHOOSE i \in at : Cardinality({j \in at : j < i}) = k - 1
    IN  [k \in 1..(n + 1) |-> SubSeq(s, cut(k - 1) + 1, cut(k) - 1)]

\* the value of a run of decimal digits
RECURSIVE DigitsValue(_)
DigitsValue(s) ==
    IF s = <<>> THEN 0
    ELSE 10 * DigitsValue(SubSeq(s, 1, Len(s) - 1)) + DigitValue(s[Len(s)])

\* str(n) of an int
RECURSIVE str(_)
str(n) ==
    IF n < 0 THEN <<"-">> \o str(0 - n)
    ELSE IF n < 10 THEN <<Digits[n + 1]>>
    ELSE str(n \div 10) \o <<Digits[(n % 10) + 1]>>

----------------------------------------------------------------------------
(* Python values passed as the year argument *)

PyInt(n) == [type |-> "int", v |-> n]
PyStr(s) == [type |-> "str", v |-> s]
\* the float num/den, den > 0
PyFloat(num, den) == [type |-> "float", v |-> <<num, den>>, is |-> "finite"]
PyNaN == [type |-> "float", v |-> <<>>, is |-> "nan"]
PyInf == [type |-> "float", v |-> <<>>, is |-> "inf"]
PyNone == [type |-> "NoneType", v |-> <<>>]

Returned(v) == [ok |-> TRUE, v |-> v]
Raised(exc, msg) == [ok |-> FALSE, exc |-> exc, msg |-> msg]

\* int(s) of a str: surrounding whitespace, an optional sign, decimal digits
\* with single underscores between them
int_of_str(s) ==
    LET t == strip(s)
        signed == t # <<>> /\ t[1] \in {"+", "-"}
        body == IF signed THEN Tail(t) ELSE t
        wellFormed ==
            /\ body # <<>>
            /\ \A i \in 1..Len(body) : IsDigit(body[i]) \/ body[i] = "_"
            /\ IsDigit(body[1]) /\ IsDigit(body[Len(body)])
            /\ \A i \in 1..(Len(body) - 1) : ~(body[i] = "_" /\ body[i + 1] = "_")
        mag == DigitsValue(SelectSeq(body, IsDigit))
    IN  IF ~wellFormed THEN Raised("ValueError", <<"invalid literal for int()">>)
        ELSE Returned(IF signed /\ t[1] = "-" THEN 0 - mag ELSE mag)

\* int(x): an int is itself, a str is parsed, a finite float is truncated
\* towards zero, nan is a ValueError, infinity an OverflowError, None a TypeError
int(x) ==
    CASE x.type = "int" -> Returned(x.v)
      [] x.type = "str" -> int_of_str(x.v)
      [] x.type = "float" ->
            IF x.is = "nan"
            THEN Raised("ValueError", <<"cannot convert float NaN to integer">>)
            ELSE IF x.is = "inf"
            THEN Raised("OverflowError", <<"cannot convert float infinity to integer">>)
            ELSE Returned(IF x.v[1] >= 0 THEN x.v[1] \div x.v[2]
                          ELSE 0 - ((0 - x.v[1]) \div x.v[2]))
      [] OTHER -> Raised("TypeError", <<"int() argument must be a string or a number">>)

----------------------------------------------------------------------------
(* The table literal of _get_year *)

Indent == <<" ", " ", " ", " ", " ", " ", " ", " ">>

table ==
    Indent \o <<"1", "\t", "<U+7532><U+5B50>", "\t", "ji<U+01CE>-z<U+01D0>", "\t", "gapja <U+AC11><U+C790>", "\t", "k<U+014D>shi(kasshi)/kinoe-ne", "\t", "Gi<U+00E1>p T<U+00FD>", "\t", "Yang Wood Rat", "\t", "4", "\t", "5", "7", "\t", "1", "9", "8", "4", "\n">> \o
    Indent \o <<"2", "\t", "<U+4E59><U+4E11>", "\t", "y<U+01D0>-ch<U+01D2>u", "\t", "eulchuk <U+C744><U+CD95>", "\t", "itch<U+016B>/kinoto-ushi", "\t", "<U+1EA4>t S<U+1EED>u", "\t", "Yin Wood Ox", "\t", "5", "\t", "5", "6", "\t", "1", "9", "8", "5", "\n">> \o
    Indent \o <<"3", "\t", "<U+4E19><U+5BC5>", "\t", "b<U+01D0>ng-y<U+00ED>n", "\t", "byeongin <U+BCD1><U+C778>", "\t", "heiin/hinoe-tora", "\t", "B<U+00ED>nh D<U+1EA7>n", "\t", "Yang Fire Tiger", "\t", "6", "\t", "5", "5", "\t", "1", "9", "8", "6", "\n">> \o
    Indent \o <<"4", "\t", "<U+4E01><U+536F>", "\t", "d<U+012B>ng-m<U+01CE>o", "\t", "jeongmyo <U+C815><U+BB18>", "\t", "teib<U+014D>/hinoto-u", "\t", "<U+0110>inh M<U+00E3>o", "\t", "Yin Fire Rabbit", "\t", "7", "\t", "5", "4", "\t", "1", "9", "8", "7", "\n">> \o
    Indent \o <<"5", "\t", "<U+620A><U+8FB0>", "\t", "w<U+00F9>-ch<U+00E9>n", "\t", "mujin <U+BB34><U+C9C4>", "\t", "boshin/tsuchinoe-tatsu", "\t", "M<U+1EAD>u Th<U+00EC>n", "\t", "Yang Earth Dragon", "\t", "8", "\t", "5", "3", "\t", "1", "9", "8", "8", "\n">> \o
    Indent \o <<"6", "\t", "<U+5DF1><U+5DF3>", "\t", "j<U+01D0>-s<U+00EC>", "\t", "gisa <U+AE30><U+C0AC>", "\t", "kishi/tsuchinoto-mi", "\t", "K<U+1EF7> T<U+1EF5>", "\t", "Yin Earth Snake", "\t", "9", "\t", "5", "2", "\t", "1", "9", "8", "9", "\n">> \o
    Indent \o <<"7", "\t", "<U+5E9A><U+5348>", "\t", "g<U+0113>ng-w<U+01D4>", "\t", "gyeongo <U+ACBD><U+C624>", "\t", "k<U+014D>go/kanoe-uma", "\t", "Canh Ng<U+1ECD>", "\t", "Yang Metal Horse", "\t", "1", "0", "\t", "5", "1", "\t", "1", "9", "9", "0", "\n">> \o
    Indent \o <<"8", "\t", "<U+8F9B><U+672A>", "\t", "x<U+012B>n-w<U+00E8>i", "\t", "shinmi <U+C2E0><U+BBF8>", "\t", "shinbi/kanoto-hitsuji", "\t", "T<U+00E2>n M<U+00F9>i", "\t", "Yin Metal Goat", "\t", "1", "1", "\t", "5", "0", "\t", "1", "9", "9", "1", "\n">> \o
    Indent \o <<"9", "\t", "<U+58EC><U+7533>", "\t", "r<U+00E9>n-sh<U+0113>n", "\t", "imshin <U+C784><U+C2E0>", "\t", "jinshin/mizunoe-saru", "\t", "Nh<U+00E2>m Th<U+00E2>n", "\t", "Yang Water Monkey", "\t", "1", "2", "\t", "4", "9", "\t", "1", "9", "9", "2", "\n">> \o
    Indent \o <<"1", "0", "\t", "<U+7678><U+9149>", "\t", "gu<U+01D0>-y<U+01D2>u", "\t", "gyeyu <U+ACC4><U+C720>", "\t", "kiy<U+016B>/mizunoto-tori", "\t", "Qu<U+00FD> D<U+1EAD>u", "\t", "Yin Water Rooster", "\t", "1", "3", "\t", "4", "8", "\t", "1", "9", "9", "3", "\n">> \o
    Indent \o <<"1", "1", "\t", "<U+7532><U+620C>", "\t", "ji<U+01CE>-x<U+016B>", "\t", "gapsul <U+AC11><U+C220>", "\t", "k<U+014D>jutsu/kinoe-inu", "\t", "Gi<U+00E1>p Tu<U+1EA5>t", "\t", "Yang Wood Dog", "\t", "1", "4", "\t", "4", "7", "\t", "1", "9", "9", "4", "\n">> \o
    Indent \o <<"1", "2", "\t", "<U+4E59><U+4EA5>", "\t", "y<U+01D0>-h<U+00E0>i", "\t", "eulhae <U+C744><U+D574>", "\t", "itsugai/kinoto-i", "\t", "<U+00C2>t H<U+1EE3>i", "\t", "Yin Wood Pig", "\t", "1", "5", "\t", "4", "6", "\t", "1", "9", "9", "5", "\n">> \o
    Indent \o <<"1", "3", "\t", "<U+4E19><U+5B50>", "\t", "b<U+01D0>ng-z<U+01D0>", "\t", "byeongja <U+BCD1><U+C790>", "\t", "heishi/hinoe-ne", "\t", "B<U+00ED>nh T<U+00FD>", "\t", "Yang Fire Rat", "\t", "1", "6", "\t", "4", "5", "\t", "1", "9", "9", "6", "\n">> \o
    Indent \o <<"1", "4", "\t", "<U+4E01><U+4E11>", "\t", "d<U+012B>ng-ch<U+01D2>u", "\t", "jeongchuk <U+C815><U+CD95>", "\t", "teich<U+016B>/hinoto-ushi", "\t", "<U+0110>inh S<U+1EED>u", "\t", "Yin Fire Ox", "\t", "1", "7", "\t", "4", "4", "\t", "1", "9", "9", "7", "\n">> \o
    Indent \o <<"1", "5", "\t", "<U+620A><U+5BC5>", "\t", "w<U+00F9>-y<U+00ED>n", "\t", "muin <U+BB34><U+C778>", "\t", "boin/tsuchinoe-tora", "\t", "M<U+1EAD>u D<U+1EA7>n", "\t", "Yang Earth Tiger", "\t", "1", "8", "\t", "4", "3", "\t", "1", "9", "9", "8", "\n">> \o
    Indent \o <<"1", "6", "\t", "<U+5DF1><U+536F>", "\t", "j<U+01D0>-m<U+01CE>o", "\t", "gimyo <U+AE30><U+BB18>", "\t", "kib<U+014D>/tsuchinoto-u", "\t", "K<U+1EF7> M<U+00E3>o", "\t", "Yin Earth Rabbit", "\t", "1", "9", "\t", "4", "2", "\t", "1", "9", "9", "9", "\n">> \o
    Indent \o <<"1", "7", "\t", "<U+5E9A><U+8FB0>", "\t", "g<U+0113>ng-ch<U+00E9>n", "\t", "gyeongjin <U+ACBD><U+C9C4>", "\t", "k<U+014D>shin/kanoe-tatsu", "\t", "Canh Th<U+00EC>n", "\t", "Yang Metal Dragon", "\t", "2", "0", "\t", "4", "1", "\t", "2", "0", "0", "0", "\n">> \o
    Indent \o <<"1", "8", "\t", "<U+8F9B><U+5DF3>", "\t", "x<U+012B>n-s<U+00EC>", "\t", "shinsa <U+C2E0><U+C0AC>", "\t", "shinshi/kanoto-mi", "\t", "T<U+00E2>n T<U+1EF5>", "\t", "Yin Metal Snake", "\t", "2", "1", "\t", "4", "0", "\t", "2", "0", "0", "1", "\n">> \o
    Indent \o <<"1", "9", "\t", "<U+58EC><U+5348>", "\t", "r<U+00E9>n-w<U+01D4>", "\t", "imo <U+C784><U+C624>", "\t", "jingo/mizunoe-uma", "\t", "Nh<U+00E2>m Ng<U+1ECD>", "\t", "Yang Water Horse", "\t", "2", "2", "\t", "3", "9", "\t", "2", "0", "0", "2", "\n">> \o
    Indent \o <<"2", "0", "\t", "<U+7678><U+672A>", "\t", "gu<U+01D0>-w<U+00E8>i", "\t", "gyemi <U+ACC4><U+BBF8>", "\t", "kibi/mizunoto-hitsuji", "\t", "Qu<U+00FD> M<U+00F9>i", "\t", "Yin Water Goat", "\t", "2", "3", "\t", "3", "8", "\t", "2", "0", "0", "3", "\n">> \o
    Indent \o <<"2", "1", "\t", "<U+7532><U+7533>", "\t", "ji<U+01CE>-sh<U+0113>n", "\t", "gapshin <U+AC11><U+C2E0>", "\t", "k<U+014D>shin/kinoe-saru", "\t", "Gi<U+00E1>p Th<U+00E2>n", "\t", "Yang Wood Monkey", "\t", "2", "4", "\t", "3", "7", "\t", "2", "0", "0", "4", "\n">> \o
    Indent \o <<"2", "2", "\t", "<U+4E59><U+9149>", "\t", "y<U+01D0>-y<U+01D2>u", "\t", "eulyu <U+C744><U+C720>", "\t", "itsuy<U+016B>/kinoto-tori", "\t", "<U+1EA4>t D<U+1EAD>u", "\t", "Yin Wood Rooster", "\t", "2", "5", "\t", "3", "6", "\t", "2", "0", "0", "5", "\n">> \o
    Indent \o <<"2", "3", "\t", "<U+4E19><U+620C>", "\t", "b<U+01D0>ng-x<U+016B>", "\t", "byeongsul <U+BCD1><U+C220>", "\t", "heijutsu/hinoe-inu", "\t", "B<U+00ED>nh Tu<U+1EA5>t", "\t", "Yang Fire Dog", "\t", "2", "6", "\t", "3", "5", "\t", "2", "0", "0", "6", "\n">> \o
    Indent \o <<"2", "4", "\t", "<U+4E01><U+4EA5>", "\t", "d<U+012B>ng-h<U+00E0>i", "\t", "jeonghae <U+C815><U+D574>", "\t", "teigai/hinoto-i", "\t", "<U+0110>inh H<U+1EE3>i", "\t", "Yin Fire Pig", "\t", "2", "7", "\t", "3", "4", "\t", "2", "0", "0", "7", "\n">> \o
    Indent \o <<"2", "5", "\t", "<U+620A><U+5B50>", "\t", "w<U+00F9>-z<U+01D0>", "\t", "muja <U+BB34><U+C790>", "\t", "boshi/tsuchinoe-ne", "\t", "M<U+1EAD>u T<U+00FD>", "\t", "Yang Earth Rat", "\t", "2", "8", "\t", "3", "3", "\t", "2", "0", "0", "8", "\n">> \o
    Indent \o <<"2", "6", "\t", "<U+5DF1><U+4E11>", "\t", "j<U+01D0>-ch<U+01D2>u", "\t", "gichuk <U+AE30><U+CD95>", "\t", "kich<U+016B>/tsuchinoto-ushi", "\t", "K<U+1EF7> S<U+1EED>u", "\t", "Yin Earth Ox", "\t", "2", "9", "\t", "3", "2", "\t", "2", "0", "0", "9", "\n">> \o
    Indent \o <<"2", "7", "\t", "<U+5E9A><U+5BC5>", "\t", "g<U+0113>ng-y<U+00ED>n", "\t", "gyeongin <U+ACBD><U+C778>", "\t", "k<U+014D>in/kanoe-tora", "\t", "Canh D<U+1EA7>n", "\t", "Yang Metal Tiger", "\t", "3", "0", "\t", "3", "1", "\t", "2", "0", "1", "0", "\n">> \o
    Indent \o <<"2", "8", "\t", "<U+8F9B><U+536F>", "\t", "x<U+012B>n-m<U+01CE>o", "\t", "shinmyo <U+C2E0><U+BB18>", "\t", "shinb<U+014D>/kanoto-u", "\t", "T<U+00E2>n M<U+00E3>o", "\t", "Yin Metal Rabbit", "\t", "3", "1", "\t", "3", "0", "\t", "2", "0", "1", "1", "\n">> \o
    Indent \o <<"2", "9", "\t", "<U+58EC><U+8FB0>", "\t", "r<U+00E9>n-ch<U+00E9>n", "\t", "imjin <U+C784><U+C9C4>", "\t", "jinshin/mizunoe-tatsu", "\t", "Nh<U+00E2>m Th<U+00EC>n", "\t", "Yang Water Dragon", "\t", "3", "2", "\t", "2", "9", "\t", "2", "0", "1", "2", "\n">> \o
    Indent \o <<"3", "0", "\t", "<U+7678><U+5DF3>", "\t", "gu<U+01D0>-s<U+00EC>", "\t", "gyesa <U+ACC4><U+C0AC>", "\t", "kishi/mizunoto-mi", "\t", "Qu<U+00FD> T<U+1EF5>", "\t", "Yin Water Snake", "\t", "3", "3", "\t", "2", "8", "\t", "2", "0", "1", "3", "\n">> \o
    Indent \o <<"3", "1", "\t", "<U+7532><U+5348>", "\t", "ji<U+01CE>-w<U+01D4>", "\t", "gapo <U+AC11><U+C624>", "\t", "k<U+014D>go/kinoe-uma", "\t", "Gi<U+00E1>o Ng<U+1ECD>", "\t", "Yang Wood Horse", "\t", "3", "4", "\t", "2", "7", "\t", "2", "0", "1", "4", "\n">> \o
    Indent \o <<"3", "2", "\t", "<U+4E59><U+672A>", "\t", "y<U+01D0>-w<U+00E8>i", "\t", "eulmi <U+C744><U+BBF8>", "\t", "itsubi/kinoto-hitsuji", "\t", "<U+1EA4>t M<U+00F9>i", "\t", "Yin Wood Goat", "\t", "3", "5", "\t", "2", "6", "\t", "2", "0", "1", "5", "\n">> \o
    Indent \o <<"3", "3", "\t", "<U+4E19><U+7533>", "\t", "b<U+01D0>ng-sh<U+0113>n", "\t", "byeongshin <U+BCD1><U+C2E0>", "\t", "heishin/hinoe-saru", "\t", "B<U+00ED>nh Th<U+00E2>n", "\t", "Yang Fire Monkey", "\t", "3", "6", "\t", "2", "5", "\t", "2", "0", "1", "6", "\n">> \o
    Indent \o <<"3", "4", "\t", "<U+4E01><U+9149>", "\t", "d<U+012B>ng-y<U+01D2>u", "\t", "jeongyu <U+C815><U+C720>", "\t", "teiy<U+016B>/hinoto-tori", "\t", "<U+0110>inh D<U+1EAD>u", "\t", "Yin Fire Rooster", "\t", "3", "7", "\t", "2", "4", "\t", "2", "0", "1", "7", "\n">> \o
    Indent \o <<"3", "5", "\t", "<U+620A><U+620C>", "\t", "w<U+00F9>-x<U+016B>", "\t", "musul <U+BB34><U+C220>", "\t", "bojutsu/tsuchinoe-inu", "\t", "M<U+1EAD>u Tu<U+1EA5>t", "\t", "Yang Earth Dog", "\t", "3", "8", "\t", "2", "3", "\t", "2", "0", "1", "8", "\n">> \o
    Indent \o <<"3", "6", "\t", "<U+5DF1><U+4EA5>", "\t", "j<U+01D0>-h<U+00E0>i", "\t", "gihae <U+AE30><U+D574>", "\t", "kigai/tsuchinoto-i", "\t", "K<U+1EF7> H<U+1EE3>i", "\t", "Yin Earth Pig", "\t", "3", "9", "\t", "2", "2", "\t", "2", "0", "1", "9", "\n">> \o
    Indent \o <<"3", "7", "\t", "<U+5E9A><U+5B50>", "\t", "g<U+0113>ng-z<U+01D0>", "\t", "gyeongja <U+ACBD><U+C790>", "\t", "k<U+014D>shi/kanoe-ne", "\t", "Canh T<U+00FD>", "\t", "Yang Metal Rat", "\t", "4", "0", "\t", "2", "1", "\t", "2", "0", "2", "0", "\n">> \o
    Indent \o <<"3", "8", "\t", "<U+8F9B><U+4E11>", "\t", "x<U+012B>n-ch<U+01D2>u", "\t", "shinchuk <U+C2E0><U+CD95>", "\t", "shinch<U+016B>/kanoto-ushi", "\t", "T<U+00E2>n S<U+1EED>u", "\t", "Yin Metal Ox", "\t", "4", "1", "\t", "2", "0", "\t", "2", "0", "2", "1", "\n">> \o
    Indent \o <<"3", "9", "\t", "<U+58EC><U+5BC5>", "\t", "r<U+00E9>n-y<U+00ED>n", "\t", "imin <U+C784><U+C778>", "\t", "jin'in/mizunoe-tora", "\t", "Nh<U+00E2>m D<U+1EA7>n", "\t", "Yang Water Tiger", "\t", "4", "2", "\t", "1", "9", "\t", "2", "0", "2", "2", "\n">> \o
    Indent \o <<"4", "0", "\t", "<U+7678><U+536F>", "\t", "gu<U+01D0>-m<U+01CE>o", "\t", "gyemyo <U+ACC4><U+BB18>", "\t", "kib<U+014D>/mizunoto-u", "\t", "Qu<U+00FD> M<U+00E3>o", "\t", "Yin Water Rabbit", "\t", "4", "3", "\t", "1", "8", "\t", "2", "0", "2", "3", "\n">> \o
    Indent \o <<"4", "1", "\t", "<U+7532><U+8FB0>", "\t", "ji<U+01CE>-ch<U+00E9>n", "\t", "gapjin <U+AC11><U+C9C4>", "\t", "k<U+014D>shin/kinoe-tatsu", "\t", "Gi<U+00E1>p Th<U+00EC>n", "\t", "Yang Wood Dragon", "\t", "4", "4", "\t", "1", "7", "\t", "2", "0", "2", "4", "\n">> \o
    Indent \o <<"4", "2", "\t", "<U+4E59><U+5DF3>", "\t", "y<U+01D0>-s<U+00EC>", "\t", "eulsa <U+C744><U+C0AC>", "\t", "itsushi/kinoto-mi", "\t", "<U+1EA4>t T<U+1EF5>", "\t", "Yin Wood Snake", "\t", "4", "5", "\t", "1", "6", "\t", "2", "0", "2", "5", "\n">> \o
    Indent \o <<"4", "3", "\t", "<U+4E19><U+5348>", "\t", "b<U+01D0>ng-w<U+01D4>", "\t", "byeongo <U+BCD1><U+C624>", "\t", "heigo/hinoe-uma", "\t", "B<U+00ED>nh Ng<U+1ECD>", "\t", "Yang Fire Horse", "\t", "4", "6", "\t", "1", "5", "\t", "2", "0", "2", "6", "\n">> \o
    Indent \o <<"4", "4", "\t", "<U+4E01><U+672A>", "\t", "d<U+012B>ng-w<U+00E8>i", "\t", "jeongmi <U+C815><U+BBF8>", "\t", "teibi/hinoto-hitsuji", "\t", "<U+0110>inh M<U+00F9>i", "\t", "Yin Fire Goat", "\t", "4", "7", "\t", "1", "4", "\t", "2", "0", "2", "7", "\n">> \o
    Indent \o <<"4", "5", "\t", "<U+620A><U+7533>", "\t", "w<U+00F9>-sh<U+0113>n", "\t", "mushin <U+BB34><U+C2E0>", "\t", "boshin/tsuchinoe-saru", "\t", "M<U+1EAD>u Th<U+00E2>n", "\t", "Yang Earth Monkey", "\t", "4", "8", "\t", "1", "3", "\t", "2", "0", "2", "8", "\n">> \o
    Indent \o <<"4", "6", "\t", "<U+5DF1><U+9149>", "\t", "j<U+01D0>-y<U+01D2>u", "\t", "giyu <U+AE30><U+C720>", "\t", "kiy<U+016B>/tsuchinoto-tori", "\t", "K<U+1EF7> D<U+1EAD>u", "\t", "Yin Earth Rooster", "\t", "4", "9", "\t", "1", "2", "\t", "2", "0", "2", "9", "\n">> \o
    Indent \o <<"4", "7", "\t", "<U+5E9A><U+620C>", "\t", "g<U+0113>ng-x<U+016B>", "\t", "gyeongsul <U+ACBD><U+C220>", "\t", "k<U+014D>jutsu/kanoe-inu", "\t", "Canh Tu<U+1EA5>t", "\t", "Yang Metal Dog", "\t", "5", "0", "\t", "1", "1", "\t", "2", "0", "3", "0", "\n">> \o
    Indent \o <<"4", "8", "\t", "<U+8F9B><U+4EA5>", "\t", "x<U+012B>n-h<U+00E0>i", "\t", "shinhae <U+C2E0><U+D574>", "\t", "shingai/kanoto-i", "\t", "T<U+00E2>n H<U+1EE3>i", "\t", "Yin Metal Pig", "\t", "5", "1", "\t", "1", "0", "\t", "2", "0", "3", "1", "\n">> \o
    Indent \o <<"4", "9", "\t", "<U+58EC><U+5B50>", "\t", "r<U+00E9>n-z<U+01D0>", "\t", "imja <U+C784><U+C790>", "\t", "jinshi/mizunoe-ne", "\t", "Nh<U+00E2>m T<U+00FD>", "\t", "Yang Water Rat", "\t", "5", "2", "\t", "9", "\t", "2", "0", "3", "2", "\n">> \o
    Indent \o <<"5", "0", "\t", "<U+7678><U+4E11>", "\t", "gu<U+01D0>-ch<U+01D2>u", "\t", "gyechuk <U+ACC4><U+CD95>", "\t", "kich<U+016B>/mizunoto-ushi", "\t", "Qu<U+00FD> S<U+1EED>u", "\t", "Yin Water Ox", "\t", "5", "3", "\t", "8", "\t", "2", "0", "3", "3", "\n">> \o
    Indent \o <<"5", "1", "\t", "<U+7532><U+5BC5>", "\t", "ji<U+01CE>-y<U+00ED>n", "\t", "gapin <U+AC11><U+C778>", "\t", "k<U+014D>in/kinoe-tora", "\t", "Gi<U+00E1>p D<U+1EA7>n", "\t", "Yang Wood Tiger", "\t", "5", "4", "\t", "7", "\t", "2", "0", "3", "4", "\n">> \o
    Indent \o <<"5", "2", "\t", "<U+4E59><U+536F>", "\t", "y<U+01D0>-m<U+01CE>o", "\t", "eulmyo <U+C744><U+BB18>", "\t", "itsub<U+014D>/kinoto-u", "\t", "<U+1EA4>t M<U+00E3>o", "\t", "Yin Wood Rabbit", "\t", "5", "5", "\t", "6", "\t", "2", "0", "3", "5", "\n">> \o
    Indent \o <<"5", "3", "\t", "<U+4E19><U+8FB0>", "\t", "b<U+01D0>ng-ch<U+00E9>n", "\t", "byeongjin <U+BCD1><U+C9C4>", "\t", "heishin/hinoe-tatsu", "\t", "B<U+00ED>nh Th<U+00EC>n", "\t", "Yang Fire Dragon", "\t", "5", "6", "\t", "5", "\t", "2", "0", "3", "6", "\n">> \o
    Indent \o <<"5", "4", "\t", "<U+4E01><U+5DF3>", "\t", "d<U+012B>ng-s<U+00EC>", "\t", "jeongsa <U+C815><U+C0AC>", "\t", "teishi/hinoto-mi", "\t", "<U+0110>inh T<U+1EF5>", "\t", "Yin Fire Snake", "\t", "5", "7", "\t", "4", "\t", "2", "0", "3", "7", "\n">> \o
    Indent \o <<"5", "5", "\t", "<U+620A><U+5348>", "\t", "w<U+00F9>-w<U+01D4>", "\t", "muo <U+BB34><U+C624>", "\t", "bogo/tsuchinoe-uma", "\t", "M<U+1EAD>u Ng<U+1ECD>", "\t", "Yang Earth Horse", "\t", "5", "8", "\t", "3", "\t", "2", "0", "3", "8", "\n">> \o
    Indent \o <<"5", "6", "\t", "<U+5DF1><U+672A>", "\t", "j<U+01D0>-w<U+00E8>i", "\t", "gimi <U+AE30><U+BBF8>", "\t", "kibi/tsuchinoto-hitsuji", "\t", "K<U+1EF7> M<U+00F9>i", "\t", "Yin Earth Goat", "\t", "5", "9", "\t", "2", "\t", "2", "0", "3", "9", "\n">> \o
    Indent \o <<"5", "7", "\t", "<U+5E9A><U+7533>", "\t", "g<U+0113>ng-sh<U+0113>n", "\t", "gyeongshin <U+ACBD><U+C2E0>", "\t", "k<U+014D>shin/kanoe-saru", "\t", "Canh Th<U+00E2>n", "\t", "Yang Metal Monkey", "\t", "6", "0", "\t", "1", "\t", "2", "0", "4", "0", "\n">> \o
    Indent \o <<"5", "8", "\t", "<U+8F9B><U+9149>", "\t", "x<U+012B>n-y<U+01D2>u", "\t", "shinyu <U+C2E0><U+C720>", "\t", "shin'y<U+016B>/kanoto-tori", "\t", "T<U+00E2>n D<U+1EAD>u", "\t", "Yin Metal Rooster", "\t", "1", "\t", "6", "0", "\t", "2", "0", "4", "1", "\n">> \o
    Indent \o <<"5", "9", "\t", "<U+58EC><U+620C>", "\t", "r<U+00E9>n-x<U+016B>", "\t", "imsul <U+C784><U+C220>", "\t", "jinjutsu/mizunoe-inu", "\t", "Nh<U+00E2>m Tu<U+1EA5>t", "\t", "Yang Water Dog", "\t", "2", "\t", "5", "9", "\t", "2", "0", "4", "2", "\n">> \o
    Indent \o <<"6", "0", "\t", "<U+7678><U+4EA5>", "\t", "gu<U+01D0>-h<U+00E0>i", "\t", "gyehae <U+ACC4><U+D574>", "\t", "kigai/mizunoto-i", "\t", "Qu<U+00FD> H<U+1EE3>i", "\t", "Yin Water Pig", "\t", "3", "\t", "5", "8", "\t", "2", "0", "4", "3", "\n">> \o
    Indent

----------------------------------------------------------------------------
(* LunarYear._get_year *)

\* d[key] = value on a dict
DictSet(d, key, value) == (key :> value) @@ d

\* table.split('\n') of the stripped literal
table_lines == split(strip(table), "\n")

\* row with the English entry paired with the Chinese name, not the logogram
row_eng_unshared(line) ==
    LET parts == split(strip(line), "\t")
        year_order == int_of_str(parts[1])
    IN  IF ~year_order.ok \/ Len(parts) < 7
        THEN [stored |-> FALSE, key |-> 0, value |-> <<>>]
        ELSE LET hanja == parts[2]
             IN  [stored |-> TRUE,
                  key |-> year_order.v,
                  value |-> (chi :> <<parts[3], hanja>>) @@
                            (kor :> <<parts[4], hanja>>) @@
                            (jap :> <<parts[5], hanja>>) @@
                            (viet :> <<parts[6], hanja>>) @@
                            (eng :> <<parts[7], parts[3]>>)]

\* The body of the loop for one line: the entry built from the line and the
\* position it is stored under, or nothing when the first field is no integer
\* (ValueError) or the line has fewer than seven fields (IndexError).
row(line) ==
    LET parts == split(strip(line), "\t")
        year_order == int_of_str(parts[1])
    IN  IF ~year_order.ok \/ Len(parts) < 7
        THEN [stored |-> FALSE, key |-> 0, value |-> <<>>]
        ELSE LET hanja == parts[2]
             IN  [stored |-> TRUE,
                  key |-> year_order.v,
                  value |-> (chi :> <<parts[3], hanja>>) @@
                            (kor :> <<parts[4], hanja>>) @@
                            (jap :> <<parts[5], hanja>>) @@
                            (viet :> <<parts[6], hanja>>) @@
                            (eng :> <<parts[7], hanja>>)]

\* lunar_table after one more turn of the loop
parse_line(lunar_table, line) ==
    LET r == row(line)
    IN  IF r.stored THEN DictSet(lunar_table, r.key, r.value) ELSE lunar_table

\* what each of the lines contributes, in order
rows_of(lines) == [i \in DOMAIN lines |-> row(lines[i])]

\* The dict the loop leaves behind: under each position that some line
\* carries, the entry of the last such line.
dict_of(rows) ==
    LET stored == {i \in DOMAIN rows : rows[i].stored}
        final(k) == CHOOSE i \in stored :
                        /\ rows[i].key = k
                        /\ \A j \in stored : j > i => rows[j].key # k
    IN  [k \in {rows[i].key : i \in stored} |-> rows[final(k)].value]

get_year == dict_of(rows_of(table_lines))

----------------------------------------------------------------------------
(* LunarYear.__init__ and LunarYear.lang *)

\* in_range with the lower limit excluded
in_range_exclusive(gregorian_year) ==
    MIN_YEAR < gregorian_year /\ gregorian_year <= MAX_YEAR

\* line 57: MIN_YEAR <= gregorian_year <= MAX_YEAR
in_range(gregorian_year) ==
    MIN_YEAR <= gregorian_year /\ gregorian_year <= MAX_YEAR

\* year_in_cycle without the offset of the cycle's first year
year_in_cycle_no_offset(gregorian_year) == (gregorian_year % 60) + 1

\* year_in_cycle with a modulus one too large
year_in_cycle_61(gregorian_year) == ((gregorian_year - 4) % 61) + 1

\* line 66
year_in_cycle(gregorian_year) == ((gregorian_year - 4) % 60) + 1

\* What __init__ does with its argument before it touches the table: the
\* instance's two fields, or the exception raised.  int()'s ValueError and
\* TypeError are re-raised as TypeError; any other exception of int() passes.
init(x) ==
    LET n == int(x)
    IN  IF ~n.ok
        THEN IF n.exc \in {"ValueError", "TypeError"}
             THEN Raised("TypeError", <<"Year must be an integer, got ", x.type>>)
             ELSE n
        ELSE IF ~in_range(n.v)
        THEN Raised("ValueError",
                    <<"Year must be between ">> \o str(MIN_YEAR) \o <<" and ">>
                        \o str(MAX_YEAR) \o <<", got ">> \o str(n.v))
        ELSE Returned([gregorian_year |-> n.v,
                       year_in_cycle |-> year_in_cycle(n.v)])

\* load without the `is None` test: every construction parses again
load_always(T, h) == [TABLE |-> Len(h) + 1, heap |-> Append(h, get_year)]

\* lines 69-70: the class attribute and the heap after the load
load(T, h) ==
    IF T = None
    THEN [TABLE |-> Len(h) + 1, heap |-> Append(h, get_year)]
    ELSE [TABLE |-> T, heap |-> h]

\* after_init with the load placed ahead of the validation
after_init_load_first(r, T, h) == load(T, h)

\* the class attribute and the heap after __init__ ended with outcome r: an
\* exception leaves __init__ before line 69
after_init(r, T, h) ==
    IF r.ok THEN load(T, h) ELSE [TABLE |-> T, heap |-> h]

\* lang listing the codes in the order they are written, not sorted
lang_unsorted(self, code) ==
    IF code \notin SUPPORTED_LANGUAGES
    THEN Raised("ValueError",
                <<"Language '">> \o code \o <<"' not supported. Choose from: ">>
                    \o join(<<",", " ">>, <<chi, kor, jap, viet, eng>>))
    ELSE Returned(heap[TABLE][self.year_in_cycle][code])

\* self.lang(code) with the class state s: the code is checked against the
\* supported ones, then the table is read through the class attribute
lang_in(s, self, code) ==
    IF code \notin SUPPORTED_LANGUAGES
    THEN Raised("ValueError",
                <<"Language '">> \o code \o <<"' not supported. Choose from: ">>
                    \o join(<<",", " ">>, sorted(SUPPORTED_LANGUAGES)))
    ELSE Returned(s.heap[s.TABLE][self.year_in_cycle][code])

\* self.lang(code)
lang(self, code) == lang_in([TABLE |-> TABLE, heap |-> heap], self, code)

----------------------------------------------------------------------------
(* A session: constructions and lang calls, one after the other *)

\* LunarYear(x), r being what init(x) comes to and s the class state after it
Constructed(x, r, s) ==
    /\ Len(resolvers) < MaxResolvers
    /\ TABLE' = s.TABLE
    /\ heap' = s.heap
    /\ resolvers' = IF r.ok THEN Append(resolvers, r.v) ELSE resolvers
    /\ last' = [op |-> "init", arg |-> x, out |-> r]
    /\ UNCHANGED <<threads, proc>>

Construct(x) == Constructed(x, init(x), after_init(init(x), TABLE, heap))

\* resolvers[i].lang(code)
Lang(i, code) ==
    /\ i \in 1..Len(resolvers)
    /\ last' = [op |-> "lang", arg |-> <<i, code>>, out |-> lang(resolvers[i], code)]
    /\ UNCHANGED <<TABLE, heap, resolvers, threads, proc>>

\* the integers within EdgeMargin of a limit of the valid range
EdgeYears ==
    ((MIN_YEAR - EdgeMargin)..(MIN_YEAR + EdgeMargin))
        \cup ((MAX_YEAR - EdgeMargin)..(MAX_YEAR + EdgeMargin))

\* year arguments of a session: integers, their decimal text, text that is
\* no integer, floats and None
YearInputs ==
    {PyInt(n) : n \in EdgeYears}
        \cup {PyStr(str(n)) : n \in EdgeYears}
        \cup {PyInt(2024), PyStr(<<"2", "0", "2", "4">>),
              PyStr(<<" ", "2", "0", "2", "4", "\n">>),
              PyStr(<<"n", "o", "t", "_", "a", "_", "y", "e", "a", "r">>),
              PyStr(<<"2", "0", "2", "4", ".", "5">>), PyStr(<<>>),
              PyFloat(4049, 2), PyFloat(7, 2), PyNaN, PyInf, PyNone}

\* language codes tried: the five, and codes that are none of them
LangInputs ==
    SUPPORTED_LANGUAGES
        \cup {<<"C", "H", "I">>, <<"E", "n", "g">>, <<"c", "h">>,
              <<"b", "o", "g", "u", "s">>, <<>>}

Idle == [op |-> "none", arg |-> <<>>, out |-> <<>>]

Init ==
    /\ TABLE = None
    /\ heap = <<>>
    /\ resolvers = <<>>
    /\ last = Idle
    /\ threads = <<>>
    /\ proc = <<>>

Next ==
    \/ \E x \in YearInputs : Construct(x)
    \/ \E i \in 1..MaxResolvers, code \in LangInputs : Lang(i, code)

Spec == Init /\ [][Next]_vars

----------------------------------------------------------------------------
(* Every year of the range: a resolver for an integer year, lang calls on *)
(* it, and a resolver for the year one cycle later                        *)

\* the length of the cycle (line 66)
CycleLength == 60

\* the integers from YearMargin below the valid range to YearMargin above it
AllYears == (MIN_YEAR - YearMargin)..(MAX_YEAR + YearMargin)

FirstResolver ==
    /\ last = Idle
    /\ \E y \in AllYears : Construct(PyInt(y))

LangOfFirst ==
    /\ Len(resolvers) = 1
    /\ last.op = "init"
    /\ \E code \in LangInputs : Lang(1, code)

ResolverOneCycleLater ==
    /\ Len(resolvers) = 1
    /\ last.op = "init"
    /\ \E y \in {resolvers[1].gregorian_year + CycleLength} : Construct(PyInt(y))

NextYears == FirstResolver \/ LangOfFirst \/ ResolverOneCycleLater

SpecYears == Init /\ [][NextYears]_vars

----------------------------------------------------------------------------
(* Threads that construct concurrently.  A thread runs __init__ a statement *)
(* at a time; nothing holds the other threads back between two statements.  *)

\* year arguments of the threads
ThreadInputs == {PyInt(2024), PyInt(2025), PyInt(10000)}

Thread(x) ==
    [pc |-> "start", x |-> x, out |-> <<>>, n |-> 0, lunar_table |-> <<>>, saw |-> None]

InitThreads ==
    /\ TABLE = None
    /\ heap = <<>>
    /\ resolvers = <<>>
    /\ last = Idle
    /\ threads \in [1..NumThreads -> {Thread(x) : x \in ThreadInputs}]
    /\ proc = <<>>

\* lines 50-66: the argument is coerced and checked and the fields are set
T_Validate(t) ==
    /\ threads[t].pc = "start"
    /\ threads' = [threads EXCEPT ![t].out = init(threads[t].x),
                                  ![t].pc = IF init(threads[t].x).ok
                                            THEN "test" ELSE "raised"]
    /\ UNCHANGED <<TABLE, heap, resolvers, last, proc>>

\* line 69: with the table there, __init__ returns; without it, _get_year is
\* entered and its lunar_table starts empty
T_Test(t) ==
    /\ threads[t].pc = "test"
    /\ IF TABLE = None
       THEN /\ threads' = [threads EXCEPT ![t].pc = "build"]
            /\ UNCHANGED resolvers
       ELSE /\ threads' = [threads EXCEPT ![t].pc = "done", ![t].saw = TABLE]
            /\ resolvers' = Append(resolvers, threads[t].out.v)
    /\ UNCHANGED <<TABLE, heap, last, proc>>

\* lines 170-185: one turn of the loop over the lines
T_Line(t, lines) ==
    /\ threads[t].pc = "build"
    /\ threads[t].n < Len(lines)
    /\ threads' = [threads EXCEPT
                      ![t].n = @ + 1,
                      ![t].lunar_table = parse_line(@, lines[threads[t].n + 1])]
    /\ UNCHANGED <<TABLE, heap, resolvers, last, proc>>

\* lines 187 and 70: _get_year returns its dict, which is assigned to _TABLE
T_Store(t, lines) ==
    /\ threads[t].pc = "build"
    /\ threads[t].n = Len(lines)
    /\ heap' = Append(heap, threads[t].lunar_table)
    /\ TABLE' = Len(heap) + 1
    /\ threads' = [threads EXCEPT ![t].pc = "done", ![t].saw = Len(heap) + 1]
    /\ resolvers' = Append(resolvers, threads[t].out.v)
    /\ UNCHANGED <<last, proc>>

NextThreads ==
    \E t \in 1..NumThreads :
        \/ T_Validate(t)
        \/ T_Test(t)
        \/ T_Line(t, table_lines)
        \/ T_Store(t, table_lines)

SpecThreads == InitThreads /\ [][NextThreads]_vars

----------------------------------------------------------------------------
(* main() *)

\* parser.parse_args() for a year and a language on the command line:
\* argparse converts the year with int and checks the language against the
\* choices, and on a failure of either prints the usage and exits with 2
parse_args(argv) ==
    IF ~int_of_str(argv[1]).ok
    THEN Raised("SystemExit", <<"2">>)
    ELSE IF \A i \in 1..Len(sorted(SUPPORTED_LANGUAGES)) :
                sorted(SUPPORTED_LANGUAGES)[i] # argv[2]
    THEN Raised("SystemExit", <<"2">>)
    ELSE Returned([year |-> int_of_str(argv[1]).v, language |-> argv[2]])

\* lines 218-221, the body of the try: what is printed, or the exception
\* that leaves it; s is the class state after the construction
try_body(args, lunar_year, s) ==
    IF ~args.ok THEN args
    ELSE IF ~lunar_year.ok THEN lunar_year
    ELSE IF ~lang_in(s, lunar_year.v, args.v.language).ok
    THEN lang_in(s, lunar_year.v, args.v.language)
    ELSE Returned(join(<<"\t">>, lang_in(s, lunar_year.v, args.v.language).v)
                      \o <<"\n">>)

\* lines 217-227: the exit status and the output.  SystemExit is no
\* Exception and passes both handlers.
exit_of(argv, done) ==
    IF done.ok
    THEN [pc |-> "exited", argv |-> argv, status |-> 0,
          stdout |-> done.v, stderr |-> <<>>]
    ELSE IF done.exc = "SystemExit"
    THEN [pc |-> "exited", argv |-> argv, status |-> DigitsValue(done.msg),
          stdout |-> <<>>, stderr |-> <<"usage">>]
    ELSE IF done.exc = "ValueError"
    THEN [pc |-> "exited", argv |-> argv, status |-> 1,
          stdout |-> <<>>, stderr |-> <<"Error: ">> \o done.msg \o <<"\n">>]
    ELSE [pc |-> "exited", argv |-> argv, status |-> 2,
          stdout |-> <<>>, stderr |-> <<"Unexpected error: ">> \o done.msg \o <<"\n">>]

\* main() with args what parse_args came to and lunar_year what __init__
\* came to, s being the class state after it
MainRun(argv, args, lunar_year, s) ==
    /\ proc.pc = "start"
    /\ TABLE' = s.TABLE
    /\ heap' = s.heap
    /\ resolvers' = IF args.ok /\ lunar_year.ok
                    THEN Append(resolvers, lunar_year.v) ELSE resolvers
    /\ proc' = exit_of(argv, try_body(args, lunar_year, s))
    /\ UNCHANGED <<last, threads>>

\* the class state main() leaves: __init__ is reached only with the
\* arguments parsed
after_main(args, T, h) ==
    IF args.ok THEN after_init(init(PyInt(args.v.year)), T, h)
    ELSE [TABLE |-> T, heap |-> h]

Main(argv) ==
    MainRun(argv, parse_args(argv),
            IF parse_args(argv).ok THEN init(PyInt(parse_args(argv).v.year))
            ELSE parse_args(argv),
            after_main(parse_args(argv), TABLE, heap))

\* year arguments on the command line
YearTexts ==
    {str(n) : n \in EdgeYears}
        \cup {<<"2", "0", "2", "4">>, <<"2", "0", "2", "5">>, <<"0">>,
              <<"0", "0", "0", "4">>, <<"+", "5">>, <<"2", "_", "0">>,
              <<" ", "2", "0", "2", "4">>, <<"1", "2", "3", "4", "5", "6">>,
              <<"n", "o", "t", "_", "a", "_", "y", "e", "a", "r">>,
              <<"2", "0", "2", "4", ".", "5">>, <<"1", "e", "3">>,
              <<"M", "M", "X", "X", "I", "V">>, <<>>}

InitMain ==
    /\ TABLE = None
    /\ heap = <<>>
    /\ resolvers = <<>>
    /\ last = Idle
    /\ threads = <<>>
    /\ proc = [pc |-> "start"]

NextMain == \E year \in YearTexts, language \in LangInputs : Main(<<year, language>>)

SpecMain == InitMain /\ [][NextMain]_vars

----------------------------------------------------------------------------
(* Properties *)

\* C1: an integer year y with 4 <= y <= 9999 is accepted; the instance holds
\* gregorian_year = y and the position ((y - 4) mod 60) + 1, which lies in
\* 1..60; year 4 is position 1, year 63 position 60, year 64 position 1.
C1_CyclePosition ==
    (last.op = "init" /\ last.arg.type = "int"
        /\ 4 <= last.arg.v /\ last.arg.v <= 9999) =>
    LET y == last.arg.v
    IN  /\ last.out.ok
        /\ resolvers # <<>>
        /\ resolvers[Len(resolvers)] = last.out.v
        /\ last.out.v.gregorian_year = y
        /\ last.out.v.year_in_cycle = ((y - 4) % 60) + 1
        /\ last.out.v.year_in_cycle \in 1..60
        /\ y = 4 => last.out.v.year_in_cycle = 1
        /\ y = 63 => last.out.v.year_in_cycle = 60
        /\ y = 64 => last.out.v.year_in_cycle = 1

C1_Witness ==
    /\ last.op = "init"
    /\ last.arg.type = "int"
    /\ last.arg.v = 63
    /\ last.out.ok
    /\ last.out.v.year_in_cycle = 60

\* C2: the construction from an integer y succeeds exactly when
\* 4 <= y <= 9999; otherwise it raises ValueError with a message that names
\* both limits and y, and no instance for y exists.
C2_RangeCheck ==
    /\ \A i \in 1..Len(resolvers) :
           4 <= resolvers[i].gregorian_year /\ resolvers[i].gregorian_year <= 9999
    /\ (last.op = "init" /\ last.arg.type = "int") =>
       LET y == last.arg.v
       IN  /\ last.out.ok <=> (4 <= y /\ y <= 9999)
           /\ ~last.out.ok =>
                /\ last.out.exc = "ValueError"
                /\ last.out.msg =
                       <<"Year must be between ", "4", " and ", "9", "9", "9", "9",
                         ", got ">> \o str(y)
                /\ \A i \in 1..Len(resolvers) : resolvers[i].gregorian_year # y

C2_Witness ==
    /\ last.op = "init"
    /\ last.arg.type = "int"
    /\ last.arg.v = 10000
    /\ ~last.out.ok
    /\ last.out.exc = "ValueError"
    /\ resolvers = <<>>

\* C3: lang(c) with c one of chi, kor, jap, viet, eng returns the pair the
\* table holds for the instance's position and c; with any other code (case
\* matters) it raises ValueError with a message that lists the five codes
\* in sorted order.
C3_Lang ==
    last.op = "lang" =>
    LET self == resolvers[last.arg[1]]
        code == last.arg[2]
    IN  IF code \in {chi, kor, jap, viet, eng}
        THEN /\ last.out.ok
             /\ last.out.v = heap[TABLE][self.year_in_cycle][code]
             /\ Len(last.out.v) = 2
        ELSE /\ ~last.out.ok
             /\ last.out.exc = "ValueError"
             /\ last.out.msg =
                    <<"Language '">> \o code \o <<"' not supported. Choose from: ">>
                        \o <<"c", "h", "i", ",", " ", "e", "n", "g", ",", " ",
                             "j", "a", "p", ",", " ", "k", "o", "r", ",", " ",
                             "v", "i", "e", "t">>

C3_Witness ==
    /\ last.op = "lang"
    /\ last.arg[2] = <<"C", "H", "I">>
    /\ ~last.out.ok
    /\ resolvers[last.arg[1]].gregorian_year = 2024

\* C5: the built table has the 60 keys 1..60; every entry has exactly the
\* five language codes, each with a (name, logogram) pair, and one logogram
\* per position.
C5_TableShape ==
    TABLE # None =>
    LET t == heap[TABLE]
    IN  /\ DOMAIN t = 1..60
        /\ Cardinality(DOMAIN t) = 60
        /\ \A k \in DOMAIN t :
               /\ DOMAIN t[k] = {chi, kor, jap, viet, eng}
               /\ \A c \in DOMAIN t[k] :
                      /\ Len(t[k][c]) = 2
                      /\ t[k][c][2] = t[k][chi][2]

C5_Witness ==
    /\ TABLE # None
    /\ heap[TABLE][41][eng] = <<<<"Yang Wood Dragon">>, <<"<U+7532><U+8FB0>">>>>
    /\ heap[TABLE][41][chi] = <<<<"ji<U+01CE>-ch<U+00E9>n">>, <<"<U+7532><U+8FB0>">>>>

\* C6: the instance for y + 60 has the position of the instance for y, and
\* lang returns the same pair for both in each of the five languages; the
\* construction for y + 60 fails only when y + 60 exceeds 9999.
C6_Periodicity ==
    /\ (Len(resolvers) = 2
           /\ resolvers[2].gregorian_year = resolvers[1].gregorian_year + 60) =>
           /\ resolvers[2].year_in_cycle = resolvers[1].year_in_cycle
           /\ \A c \in {chi, kor, jap, viet, eng} :
                  /\ lang(resolvers[1], c).ok
                  /\ lang(resolvers[2], c) = lang(resolvers[1], c)
    /\ (Len(resolvers) = 1 /\ last.op = "init" /\ ~last.out.ok) =>
           /\ last.arg.v = resolvers[1].gregorian_year + 60
           /\ last.arg.v > 9999

C6_Witness ==
    /\ Len(resolvers) = 2
    /\ resolvers[1].gregorian_year = 1984
    /\ resolvers[2].gregorian_year = 2044
    /\ resolvers[2].year_in_cycle = 1

\* C7: in a session the table is parsed at most once, by the first
\* successful construction, and every instance sees that one table object.
C7_ParsedOnce ==
    /\ Len(heap) <= 1
    /\ TABLE = None <=> resolvers = <<>>
    /\ TABLE = None => heap = <<>>
    /\ TABLE # None => TABLE = 1 /\ Len(heap) = 1

C7_Witness ==
    /\ Len(resolvers) = 2
    /\ Len(heap) = 1
    /\ TABLE = 1

\* C10: the table changes only in the step from unbuilt to built, taken by
\* the first successful construction; a failed construction changes neither
\* the table nor the instances; a lang call changes neither; an instance's
\* fields never change.
C10_Frame ==
    [][/\ (TABLE' # TABLE \/ heap' # heap) =>
              /\ TABLE = None /\ heap = <<>> /\ resolvers = <<>>
              /\ TABLE' # None
              /\ last'.op = "init" /\ last'.out.ok
       /\ (last'.op = "init" /\ ~last'.out.ok) =>
              UNCHANGED <<TABLE, heap, resolvers>>
       /\ last'.op = "lang" => UNCHANGED <<TABLE, heap, resolvers>>
       /\ Len(resolvers') >= Len(resolvers)
       /\ SubSeq(resolvers', 1, Len(resolvers)) = resolvers]_vars

C10_Witness ==
    /\ last.op = "init"
    /\ ~last.out.ok
    /\ last.out.exc = "ValueError"
    /\ TABLE = None
    /\ heap = <<>>
    /\ resolvers = <<>>

\* C4: text that int() reads as n does what the integer n does, and every
\* argument that is neither an integer nor such text raises TypeError.
C4_Coercion ==
    last.op = "init" =>
    LET x == last.arg
        integerText == x.type = "str" /\ int_of_str(x.v).ok
    IN  /\ integerText => last.out = init(PyInt(int_of_str(x.v).v))
        /\ (x.type # "int" /\ ~integerText) =>
               ~last.out.ok /\ last.out.exc = "TypeError"

\* C9: with threads constructing concurrently the table is built once, the
\* table that is visible is never a partly built one, and all instances see
\* the same table object.
C9_BuiltOnce ==
    /\ Len(heap) <= 1
    /\ TABLE # None => DOMAIN heap[TABLE] = 1..60
    /\ \A t, u \in 1..NumThreads :
           (threads[t].pc = "done" /\ threads[u].pc = "done") =>
               threads[t].saw = threads[u].saw

\* C8: main() exits with 0 when it printed the name and the logogram, with 1
\* when the year is no integer, when it is outside 4..9999 and when the
\* language is none of the five, and with 2 in no such case.
C8_ExitStatus ==
    proc.pc = "exited" =>
    LET year == int_of_str(proc.argv[1])
        valid == /\ year.ok
                 /\ 4 <= year.v /\ year.v <= 9999
                 /\ proc.argv[2] \in {chi, kor, jap, viet, eng}
    IN  /\ valid =>
               /\ proc.status = 0
               /\ proc.stdout = heap[TABLE][((year.v - 4) % 60) + 1][proc.argv[2]][1]
                                  \o <<"\t">>
                                  \o heap[TABLE][((year.v - 4) % 60) + 1][proc.argv[2]][2]
                                  \o <<"\n">>
        /\ ~valid => proc.status = 1

=============================================================================
